---- MODULE Spec2Model ----
(***************************************************************************)
(* Writely: the task / bid / acceptance / payment workflow of the          *)
(* single-file React prototype, as a state machine.                        *)
(*                                                                         *)
(* The store is the JSON document kept in localStorage (getDB / saveDB).   *)
(* Every handler is a synchronous JavaScript function, so one handler run  *)
(* (getDB ... saveDB, the setState calls and the alert) is one step.       *)
(* Ids are 'u_' / 't_' / 'b_' / 'p_' + Date.now(); ids of different kinds  *)
(* are never compared with each other, so an id is modelled by the clock   *)
(* reading alone.  Display-only fields (name, title, description, dueDate, *)
(* budget, studentName, tutorName, message, createdAt) are read by no      *)
(* handler and are left out of the records.                                *)
(*                                                                         *)
(* Routes: "home" stands for the public routes that mount no component of  *)
(* the workflow ("/", not found), "dashboard" for the dashboard routes     *)
(* that mount none (overview, profile); "/dashboard/browse" mounts the     *)
(* same TasksList as "/tasks" and is covered by "tasks".                   *)
(***************************************************************************)
EXTENDS Integers, Sequences, FiniteSets, TLC

VARIABLES
    db,        \* localStorage[DB_KEY]: [users, tasks, bids, payments]
    user,      \* AuthProvider's user state (NoUser when null)
    now,       \* the latest reading Date.now() gave
    page,      \* the route that is mounted
    tasks,     \* the tasks state of the mounted TasksList / MyTasks
    payments,  \* the payments state of the mounted PaymentsPage
    err,       \* LoginPage's err state
    alert      \* the alert() shown by the last step (NoAlert: none)

vars == <<db, user, now, page, tasks, payments, err, alert>>

----------------------------------------------------------------------------
(* Bounds *)

MaxClock == 1
MaxReadings == 7
MaxTasks == 2
MaxBids == 2
MaxPayments == 2

\* The registration forms that are submitted: a student, a tutor and a
\* second student.  Addresses are only compared for equality, so a form
\* with a new address is submitted after the forms before it in this list.
Forms == << [email |-> "a@x", password |-> "pw", role |-> "student"],
            [email |-> "b@x", password |-> "pw", role |-> "tutor"],
            [email |-> "c@x", password |-> "pw", role |-> "student"] >>

\* The passwords typed at login.
Passwords == {"pw", "bad"}

\* What can be typed in the amount box: a sequence of characters.
AmountInputs == {<<>>, <<"4">>, <<"-", "5">>, <<"x">>}

----------------------------------------------------------------------------
(* Values *)

NoUser == [id |-> -1, email |-> "", role |-> "none"]

\* The values an amount takes: an integer, NaN, or (once stored) null.
Num(n) == [kind |-> "number", v |-> n]
NaN == [kind |-> "NaN", v |-> 0]
Null == [kind |-> "null", v |-> 0]

\* undefined, for task.acceptedBid
NoBid == [id |-> -1, taskId |-> -1, tutorId |-> -1, amount |-> Null]

\* undefined, for payment.paidAt
NoTime == 0 - 1

\* The value of the "Choose bid to accept" option of the select box.
NoSelection == 0 - 2

NoErr == "null"
NoAlert == "none"

Pages == {"home", "login", "tasks", "dashboard", "mytasks", "payments"}
DashboardPages == {"dashboard", "mytasks", "payments"}
TaskPages == {"tasks", "mytasks"}

----------------------------------------------------------------------------
(* Array helpers *)

\* Array.prototype.find returns the first element that passes the test:
\* First(I) is the least of the positions I that pass, or 0 (undefined).
First(I) == IF I = {} THEN 0 ELSE CHOOSE i \in I : \A j \in I : i <= j

\* s.find(x => x.id === id)
FindById(s, id) == First({i \in 1..Len(s) : s[i].id = id})

Range(s) == {s[i] : i \in 1..Len(s)}

\* Number(amount) on the text of the amount box, for texts made of digits,
\* "-" and letters.
DigitValue(c) ==
    CASE c = "0" -> 0 [] c = "1" -> 1 [] c = "2" -> 2 [] c = "3" -> 3
      [] c = "4" -> 4 [] c = "5" -> 5 [] c = "6" -> 6 [] c = "7" -> 7
      [] c = "8" -> 8 [] c = "9" -> 9 [] OTHER -> 0 - 1

RECURSIVE DigitsValue(_, _)
DigitsValue(s, acc) ==
    IF s = <<>> THEN acc ELSE DigitsValue(Tail(s), 10 * acc + DigitValue(Head(s)))

AllDigits(s) == s # <<>> /\ \A i \in 1..Len(s) : DigitValue(s[i]) >= 0

Number(s) ==
    IF s = <<>> THEN Num(0)
    ELSE IF AllDigits(s) THEN Num(DigitsValue(s, 0))
    ELSE IF Head(s) = "-" /\ AllDigits(Tail(s)) THEN Num(0 - DigitsValue(Tail(s), 0))
    ELSE NaN

\* JSON.stringify writes NaN as null; JSON.parse reads it back as null.
Json(x) == IF x = NaN THEN Null ELSE x

\* What getDB() reads after saveDB(d).
SaveDB(d) ==
    [d EXCEPT
        !.tasks = [k \in 1..Len(d.tasks) |->
                      [d.tasks[k] EXCEPT !.acceptedBid.amount = Json(@)]],
        !.bids = [i \in 1..Len(d.bids) |-> [d.bids[i] EXCEPT !.amount = Json(@)]],
        !.payments = [j \in 1..Len(d.payments) |->
                         [d.payments[j] EXCEPT !.amount = Json(@)]]]

----------------------------------------------------------------------------
(* Rendering *)

\* TasksList: getDB().tasks; MyTasks: the user's own.
MountTasks(p, u, d) ==
    IF p = "tasks" THEN d.tasks
    ELSE IF p = "mytasks" THEN LET Own(t) == t.studentId = u.id IN SelectSeq(d.tasks, Own)
    ELSE <<>>

\* PaymentsPage's initial state.
MountPayments(p, u, d) ==
    IF p = "payments"
    THEN LET Shown(pm) ==
                 LET k == FindById(d.tasks, pm.taskId)
                 IN IF k = 0 THEN FALSE
                    ELSE IF u.role = "student" THEN d.tasks[k].studentId = u.id
                    ELSE TRUE
         IN SelectSeq(d.payments, Shown)
    ELSE <<>>

\* BidFormShown without the role test.
BidFormShown_AnyUser(u) == u # NoUser

\* TaskCard renders a BidForm.
BidFormShown(u) == u # NoUser /\ u.role = "tutor"

\* TaskCard renders an AcceptBidUI.
AcceptShown(u, task) == u # NoUser /\ u.role = "student" /\ u.id = task.studentId

\* PaymentsPage renders the Pay button.
PayShown(u, pm) == ~pm.studentPaid /\ u.role = "student"

\* CanPostTask without the role test.
CanPostTask_AnyUser(u) == u # NoUser

\* PostTaskCard.submit goes on.
CanPostTask(u) == u # NoUser /\ u.role = "student"

\* The principal AuthProvider keeps for a stored user.
Principal(u) == [id |-> u.id, email |-> u.email, role |-> u.role]

----------------------------------------------------------------------------
Init ==
    /\ db = [users |-> <<>>, tasks |-> <<>>, bids |-> <<>>, payments |-> <<>>]
    /\ user = NoUser
    /\ now = 0
    /\ page = "home"
    /\ tasks = <<>>
    /\ payments = <<>>
    /\ err = NoErr
    /\ alert = NoAlert

\* What a call of Date.now() may return: the latest reading again (the
\* clock has not moved since) or a later one.  Readings are only compared
\* for equality, so a later reading is the next integer.
DateNow == {t \in {now, now + 1} : t <= MaxClock}

\* The same when the clock moves between any two calls: every reading is new.
FreshNow == {t \in {now + 1} : t <= MaxReadings}

\* A route is opened (or the page reloaded): its components mount afresh.
Navigate(p) ==
    LET q == IF p \in DashboardPages /\ user = NoUser THEN "login" ELSE p
    IN /\ page' = q
       /\ tasks' = MountTasks(q, user, db)
       /\ payments' = MountPayments(q, user, db)
       /\ err' = NoErr
       /\ alert' = NoAlert
       /\ UNCHANGED <<db, user, now>>

\* Register without the test for a stored user with the same email.
Register_NoEmailCheck(email, password, role, t) ==
    /\ page = "login"
    /\ LET newUser == [id |-> t, email |-> email,
                       password |-> password, role |-> role]
       IN /\ db' = SaveDB([db EXCEPT !.users = Append(@, newUser)])
          /\ user' = Principal(newUser)
          /\ page' = "dashboard"
          /\ tasks' = <<>>
          /\ payments' = <<>>
          /\ err' = NoErr
          /\ alert' = NoAlert
          /\ now' = t

\* Register pushing and saving the user before it tests the email.
Register_PushThenCheck(email, password, role, t) ==
    /\ page = "login"
    /\ LET k == First({i \in 1..Len(db.users) : db.users[i].email = email})
           newUser == [id |-> t, email |-> email,
                       password |-> password, role |-> role]
       IN /\ db' = SaveDB([db EXCEPT !.users = Append(@, newUser)])
          /\ now' = t
          /\ alert' = NoAlert
          /\ IF k # 0
             THEN /\ err' = "Email already in use"
                  /\ UNCHANGED <<user, page, tasks, payments>>
             ELSE /\ user' = Principal(newUser)
                  /\ page' = "dashboard"
                  /\ tasks' = <<>>
                  /\ payments' = <<>>
                  /\ err' = NoErr

Register(email, password, role, t) ==
    /\ page = "login"
    /\ LET k == First({i \in 1..Len(db.users) : db.users[i].email = email})
       IN IF k # 0
          THEN /\ err' = "Email already in use"
               /\ alert' = NoAlert
               /\ UNCHANGED <<db, user, now, page, tasks, payments>>
          ELSE LET newUser == [id |-> t, email |-> email,
                               password |-> password, role |-> role]
               IN /\ db' = SaveDB([db EXCEPT !.users = Append(@, newUser)])
                  /\ user' = Principal(newUser)
                  /\ page' = "dashboard"
                  /\ tasks' = <<>>
                  /\ payments' = <<>>
                  /\ err' = NoErr
                  /\ alert' = NoAlert
                  /\ now' = t

Login(email, password) ==
    /\ page = "login"
    /\ LET k == First({i \in 1..Len(db.users) :
                          db.users[i].email = email /\ db.users[i].password = password})
       IN IF k = 0
          THEN /\ err' = "Invalid credentials"
               /\ alert' = NoAlert
               /\ UNCHANGED <<db, user, now, page, tasks, payments>>
          ELSE /\ user' = Principal(db.users[k])
               /\ page' = "dashboard"
               /\ tasks' = <<>>
               /\ payments' = <<>>
               /\ err' = NoErr
               /\ alert' = NoAlert
               /\ UNCHANGED <<db, now>>

Logout ==
    /\ user # NoUser
    /\ user' = NoUser
    /\ IF page \in DashboardPages
       THEN /\ page' = "login"
            /\ tasks' = <<>>
            /\ payments' = <<>>
       ELSE UNCHANGED <<page, tasks, payments>>
    /\ alert' = NoAlert
    /\ UNCHANGED <<db, now, err>>

PostTask(t) ==
    /\ page = "tasks"
    /\ IF ~CanPostTask(user)
       THEN /\ alert' = "Please login as a student to post tasks"
            /\ UNCHANGED <<db, user, now, page, tasks, payments, err>>
       ELSE /\ Len(db.tasks) < MaxTasks
            /\ LET task == [id |-> t, studentId |-> user.id, acceptedBid |-> NoBid]
               IN db' = SaveDB([db EXCEPT !.tasks = Append(@, task)])
            /\ now' = t
            /\ alert' = "Task posted"
            /\ UNCHANGED <<user, page, tasks, payments, err>>

\* SubmitBid putting the bid in front of the stored bids (unshift for push).
SubmitBid_Unshift(i, amount, t) ==
    /\ page \in TaskPages
    /\ i \in 1..Len(tasks)
    /\ BidFormShown(user)
    /\ IF user = NoUser
       THEN /\ alert' = "Please login as a tutor to bid"
            /\ UNCHANGED <<db, user, now, page, tasks, payments, err>>
       ELSE /\ Len(db.bids) < MaxBids
            /\ LET bid == [id |-> t, taskId |-> tasks[i].id, tutorId |-> user.id,
                           amount |-> Number(amount)]
               IN db' = SaveDB([db EXCEPT !.bids = <<bid>> \o @])
            /\ now' = t
            /\ alert' = "Bid submitted"
            /\ UNCHANGED <<user, page, tasks, payments, err>>

\* BidForm.submitBid on the card of tasks[i], with `amount` in the amount box.
SubmitBid(i, amount, t) ==
    /\ page \in TaskPages
    /\ i \in 1..Len(tasks)
    /\ BidFormShown(user)
    /\ IF user = NoUser
       THEN /\ alert' = "Please login as a tutor to bid"
            /\ UNCHANGED <<db, user, now, page, tasks, payments, err>>
       ELSE /\ Len(db.bids) < MaxBids
            /\ LET bid == [id |-> t, taskId |-> tasks[i].id, tutorId |-> user.id,
                           amount |-> Number(amount)]
               IN db' = SaveDB([db EXCEPT !.bids = Append(@, bid)])
            /\ now' = t
            /\ alert' = "Bid submitted"
            /\ UNCHANGED <<user, page, tasks, payments, err>>

\* AcceptWrite discarding the other bids made for the task.
AcceptWrite_DropOtherBids(d, task, bid, t) ==
    LET k == FindById(d.tasks, task.id)
        pm == [id |-> t, taskId |-> task.id, amount |-> bid.amount,
               studentPaid |-> FALSE, paidAt |-> NoTime]
        Stays(b) == b.taskId # task.id \/ b = bid
    IN SaveDB([d EXCEPT !.tasks[k].acceptedBid = bid,
                        !.bids = SelectSeq(@, Stays),
                        !.payments = Append(@, pm)])

\* AcceptBidUI.accept(bid) for the AcceptBidUI of `task`.
AcceptWrite(d, task, bid, t) ==
    LET k == FindById(d.tasks, task.id)
        pm == [id |-> t, taskId |-> task.id, amount |-> bid.amount,
               studentPaid |-> FALSE, paidAt |-> NoTime]
    IN SaveDB([d EXCEPT !.tasks[k].acceptedBid = bid, !.payments = Append(@, pm)])

\* Accept with every stored bid offered in the select box, not only the bids
\* of the card's task.
Accept_AnyBid(i, selected, t) ==
    /\ page \in TaskPages
    /\ i \in 1..Len(tasks)
    /\ AcceptShown(user, tasks[i])
    /\ LET bids == db.bids
           k == FindById(bids, selected)
       IN /\ selected = NoSelection \/ k # 0
          /\ IF k = 0
             THEN /\ alert' = "Select a bid first"
                  /\ UNCHANGED <<db, user, now, page, tasks, payments, err>>
             ELSE /\ Len(db.payments) < MaxPayments
                  /\ db' = AcceptWrite(db, tasks[i], bids[k], t)
                  /\ now' = t
                  /\ alert' = "Bid accepted. Payment pending (prototype)."
                  /\ UNCHANGED <<user, page, tasks, payments, err>>

\* The Accept button on the card of tasks[i], with `selected` chosen in the
\* select box (0: the "Choose bid to accept" option).
Accept(i, selected, t) ==
    /\ page \in TaskPages
    /\ i \in 1..Len(tasks)
    /\ AcceptShown(user, tasks[i])
    /\ LET OfTask(b) == b.taskId = tasks[i].id
           bids == SelectSeq(db.bids, OfTask)
           k == FindById(bids, selected)
       IN /\ selected = NoSelection \/ k # 0
          /\ IF k = 0
             THEN /\ alert' = "Select a bid first"
                  /\ UNCHANGED <<db, user, now, page, tasks, payments, err>>
             ELSE /\ Len(db.payments) < MaxPayments
                  /\ db' = AcceptWrite(db, tasks[i], bids[k], t)
                  /\ now' = t
                  /\ alert' = "Bid accepted. Payment pending (prototype)."
                  /\ UNCHANGED <<user, page, tasks, payments, err>>

\* MarkPaid setting the flag without recording the time.
MarkPaid_NoPaidAt(pm, t) == [pm EXCEPT !.studentPaid = TRUE]

\* MarkPaid flipping the flag instead of setting it.
MarkPaid_Toggle(pm, t) == [pm EXCEPT !.studentPaid = ~@, !.paidAt = t]

\* p.studentPaid = true; p.paidAt = Date.now()
MarkPaid(pm, t) == [pm EXCEPT !.studentPaid = TRUE, !.paidAt = t]

\* PaymentsPage.pay(payments[i])
Pay(i, t) ==
    /\ page = "payments"
    /\ i \in 1..Len(payments)
    /\ PayShown(user, payments[i])
    /\ LET k == FindById(db.payments, payments[i].id)
           p == MarkPaid(db.payments[k], t)
       IN /\ db' = SaveDB([db EXCEPT !.payments[k] = p])
          /\ payments' = [j \in 1..Len(payments) |->
                            IF payments[j].id = p.id THEN p ELSE payments[j]]
    /\ now' = t
    /\ alert' = "Marked as paid (prototype)."
    /\ UNCHANGED <<user, page, tasks, err>>

\* Each handler with its inputs; T is what its Date.now() call may return.
DoNavigate == \E p \in Pages : Navigate(p)

DoRegister(T) ==
    \E f \in 1..Len(Forms), t \in T :
        /\ f <= Len(db.users) + 1
        /\ Register(Forms[f].email, Forms[f].password, Forms[f].role, t)

DoLogin == \E f \in 1..Len(Forms), pw \in Passwords : Login(Forms[f].email, pw)

DoPostTask(T) == \E t \in T : PostTask(t)

DoSubmitBid(T) == \E i \in 1..MaxTasks, a \in AmountInputs, t \in T : SubmitBid(i, a, t)

DoAccept(T) ==
    \E i \in 1..MaxTasks, t \in T :
        \E s \in {NoSelection} \cup {b.id : b \in Range(db.bids)} : Accept(i, s, t)

DoPay(T) == \E i \in 1..MaxPayments, t \in T : Pay(i, t)

Next ==
    \/ DoNavigate
    \/ DoRegister(DateNow)
    \/ DoLogin
    \/ Logout
    \/ DoPostTask(DateNow)
    \/ DoSubmitBid(DateNow)
    \/ DoAccept(DateNow)
    \/ DoPay(DateNow)

Spec == Init /\ [][Next]_vars

\* The runs in which no two Date.now() calls return the same reading.
NextFresh ==
    \/ DoNavigate
    \/ DoRegister(FreshNow)
    \/ DoLogin
    \/ Logout
    \/ DoPostTask(FreshNow)
    \/ DoSubmitBid(FreshNow)
    \/ DoAccept(FreshNow)
    \/ DoPay(FreshNow)

SpecFresh == Init /\ [][NextFresh]_vars

----------------------------------------------------------------------------
(* Views of the store used by the properties *)

\* The positions of the payments recorded for task id `tid`.
PaymentsOf(d, tid) == {j \in 1..Len(d.payments) : d.payments[j].taskId = tid}

\* A step in which accept() wrote: only accept() pushes a payment.
AcceptWrote == Len(db'.payments) > Len(db.payments)

\* The task accept() wrote to in such a step: the first task carrying the
\* id of the payment just pushed.
AcceptedTask(d, d2) == FindById(d.tasks, d2.payments[Len(d2.payments)].taskId)

\* A task is Paid when a payment recorded for it is marked paid.
Paid(d, k) == \E j \in PaymentsOf(d, d.tasks[k].id) : d.payments[j].studentPaid

----------------------------------------------------------------------------
(* C1: in every reachable state, for every task T at most one payment      *)
(* record has taskId equal to T.id.                                        *)
C1_AtMostOnePaymentPerTask ==
    \A k \in 1..Len(db.tasks) : Cardinality(PaymentsOf(db, db.tasks[k].id)) <= 1

(* C2: of two accept-bid attempts on the same task exactly one succeeds:   *)
(* accept() never writes to a task that already has an accepted bid.       *)
C2_SecondAcceptFails ==
    [][AcceptWrote => db.tasks[AcceptedTask(db, db')].acceptedBid = NoBid]_vars

(* C3: a task's accepted bid is set at most once: once a task has an       *)
(* accepted bid, no step changes which bid is recorded on it.              *)
C3_AcceptedBidSetOnce ==
    [][\A k \in 1..Len(db.tasks) :
          db.tasks[k].acceptedBid # NoBid
             => db'.tasks[k].acceptedBid = db.tasks[k].acceptedBid]_vars

(* C4: in every reachable state a task has an accepted bid recorded if and *)
(* only if a payment record with that task's id exists.                    *)
C4_AcceptedIffPayment ==
    \A k \in 1..Len(db.tasks) :
        (db.tasks[k].acceptedBid # NoBid) <=> (PaymentsOf(db, db.tasks[k].id) # {})

(* C5: in every reachable state every payment's amount equals the amount   *)
(* of the bid recorded as accepted on the payment's task.                  *)
C5_AmountIsAcceptedBidAmount ==
    \A j \in 1..Len(db.payments) : \A k \in 1..Len(db.tasks) :
        db.tasks[k].id = db.payments[j].taskId
           => /\ db.tasks[k].acceptedBid # NoBid
              /\ db.payments[j].amount = db.tasks[k].acceptedBid.amount

(* C6: Open -> Accepted -> Paid: a task that has left Open never returns   *)
(* to Open, and once a task is Paid no step changes its accepted bid or    *)
(* creates or alters a payment for it.                                     *)
C6_Lifecycle ==
    [][\A k \in 1..Len(db.tasks) :
          /\ db.tasks[k].acceptedBid # NoBid => db'.tasks[k].acceptedBid # NoBid
          /\ Paid(db, k) =>
                /\ db'.tasks[k].acceptedBid = db.tasks[k].acceptedBid
                /\ PaymentsOf(db', db.tasks[k].id) = PaymentsOf(db, db.tasks[k].id)
                /\ \A j \in PaymentsOf(db, db.tasks[k].id) :
                      db'.payments[j] = db.payments[j]]_vars

(* C7: accept-bid on task T takes effect only when the acting principal    *)
(* is a student whose id equals T.studentId: a step that changes T or the  *)
(* payments recorded for T is taken by T's owner.                          *)
C7_OnlyOwnerAccepts ==
    [][\A k \in 1..Len(db.tasks) :
          \/ db'.tasks[k] # db.tasks[k]
          \/ PaymentsOf(db', db.tasks[k].id) # PaymentsOf(db, db.tasks[k].id)
          => user.role = "student" /\ user.id = db.tasks[k].studentId]_vars

(* C8: submit-bid persists a bid only when the acting principal is a       *)
(* tutor: the bids change only by one bid of the logged-in tutor being     *)
(* appended, and every stored bid's tutorId is the id of a stored user     *)
(* whose role is tutor.                                                    *)
C8_BidsAreTutors ==
    \A i \in 1..Len(db.bids) :
        \E u \in Range(db.users) : u.id = db.bids[i].tutorId /\ u.role = "tutor"

C8_OnlyTutorsBid ==
    /\ []C8_BidsAreTutors
    /\ [][db'.bids # db.bids =>
             /\ user.role = "tutor"
             /\ Len(db'.bids) = Len(db.bids) + 1
             /\ SubSeq(db'.bids, 1, Len(db.bids)) = db.bids
             /\ db'.bids[Len(db'.bids)].tutorId = user.id]_vars

C8_Witness ==
    /\ alert = "Bid submitted"
    /\ user.role = "tutor"
    /\ db.bids # <<>>
    /\ \E u \in Range(db.users) : u.role = "student"

(* C9: create-task persists a task only when the acting principal is a     *)
(* student: with a tutor or nobody logged in the stored tasks stay as they *)
(* are, and every stored task's studentId is the id of a stored user whose *)
(* role is student.                                                        *)
C9_TasksAreStudents ==
    \A k \in 1..Len(db.tasks) :
        \E u \in Range(db.users) : u.id = db.tasks[k].studentId /\ u.role = "student"

C9_OnlyStudentsPost ==
    /\ []C9_TasksAreStudents
    /\ [][user = NoUser \/ user.role # "student" => db'.tasks = db.tasks]_vars

C9_Witness ==
    /\ alert = "Please login as a student to post tasks"
    /\ user.role = "tutor"
    /\ db.tasks # <<>>

(* C10: the paid flag of a payment is monotonic: a payment is created with *)
(* the flag false, and no step makes a true flag false again.              *)
C10_PaidMonotonic ==
    [][/\ Len(db'.payments) >= Len(db.payments)
       /\ \A j \in 1..Len(db.payments) :
             db.payments[j].studentPaid => db'.payments[j].studentPaid
       /\ \A j \in (Len(db.payments) + 1)..Len(db'.payments) :
             ~db'.payments[j].studentPaid]_vars

C10_Witness ==
    /\ alert = "Bid accepted. Payment pending (prototype)."
    /\ Len(db.payments) = 2
    /\ db.payments[1].studentPaid
    /\ ~db.payments[2].studentPaid

(* C11: mark-paid on a payment whose paid flag is already true leaves the  *)
(* payment unchanged: a stored payment that is paid is never written       *)
(* again, so paid stays true and paidAt keeps the reading of the first     *)
(* mark-paid.                                                              *)
C11_PaidPaymentUnchanged ==
    [][\A j \in 1..Len(db.payments) :
          db.payments[j].studentPaid => db'.payments[j] = db.payments[j]]_vars

(* C12: mark-paid takes effect only when the acting principal is a student *)
(* who owns the task of the payment: a step that changes a stored payment  *)
(* is taken by a student who owns a task carrying that payment's taskId.   *)
C12_OnlyOwnerPays ==
    [][\A j \in 1..Len(db.payments) :
          db'.payments[j] # db.payments[j]
             => /\ user.role = "student"
                /\ \E k \in 1..Len(db.tasks) :
                      /\ db.tasks[k].id = db.payments[j].taskId
                      /\ db.tasks[k].studentId = user.id]_vars

(* C13: submit-bid with an amount below zero stores nothing, so in every   *)
(* reachable state every stored bid has a numeric amount >= 0.             *)
C13_BidAmountsNonNegative ==
    \A i \in 1..Len(db.bids) :
        db.bids[i].amount.kind = "number" /\ db.bids[i].amount.v >= 0

(* C14: an operation that fails (create-task refused, accept with no bid   *)
(* selected, register with an email in use, login with wrong credentials,  *)
(* submit-bid refused) leaves the stored users, tasks, bids and payments   *)
(* exactly as they were before it.                                         *)
FailAlerts ==
    {"Please login as a student to post tasks", "Please login as a tutor to bid",
     "Select a bid first"}

FailErrs == {"Email already in use", "Invalid credentials"}

C14_FailureLeavesStore ==
    [][alert' \in FailAlerts \/ err' \in FailErrs => db' = db]_vars

C14_Witness ==
    /\ err = "Email already in use"
    /\ user # NoUser
    /\ db.tasks # <<>>
    /\ db.bids # <<>>

(* C15: a task's accepted bid, when set, is a stored bid whose taskId      *)
(* equals that task's id: a bid of another task is never recorded as a     *)
(* task's accepted bid.                                                    *)
C15_AcceptedBidIsOfTask ==
    \A k \in 1..Len(db.tasks) :
        db.tasks[k].acceptedBid # NoBid
           => /\ db.tasks[k].acceptedBid \in Range(db.bids)
              /\ db.tasks[k].acceptedBid.taskId = db.tasks[k].id

C15_Witness ==
    /\ alert = "Bid accepted. Payment pending (prototype)."
    /\ \E k \in 1..Len(db.tasks) : db.tasks[k].acceptedBid # NoBid
    /\ \E b1, b2 \in Range(db.bids) : b1.taskId # b2.taskId

(* C16: ids are unique per entity kind: in every reachable state no two    *)
(* stored users, no two tasks, no two bids and no two payments carry the   *)
(* same id, also when several operations run while the clock reading does  *)
(* not change.                                                             *)
UniqueIds(s) == \A i, j \in 1..Len(s) : s[i].id = s[j].id => i = j

C16_IdsUnique ==
    /\ UniqueIds(db.users)
    /\ UniqueIds(db.tasks)
    /\ UniqueIds(db.bids)
    /\ UniqueIds(db.payments)

(* C17: a successful submit-bid appends exactly one bid and leaves every   *)
(* task, every payment and every previously stored bid unchanged.          *)
C17_SubmitBidOnlyAppends ==
    [][alert' = "Bid submitted" =>
          /\ Len(db'.bids) = Len(db.bids) + 1
          /\ SubSeq(db'.bids, 1, Len(db.bids)) = db.bids
          /\ db'.tasks = db.tasks
          /\ db'.payments = db.payments
          /\ db'.users = db.users]_vars

C17_Witness ==
    /\ alert = "Bid submitted"
    /\ Len(db.bids) = 2
    /\ db.payments # <<>>
    /\ \E k \in 1..Len(db.tasks) : db.tasks[k].acceptedBid # NoBid

(* C18: the payments listed for a principal on the payments page are, for  *)
(* a student, exactly the stored payments whose task is owned by that      *)
(* student, and for a tutor all stored payments whose task exists.         *)
ListedFor(u, d) ==
    LET Expected(pm) ==
            \E k \in 1..Len(d.tasks) :
                /\ d.tasks[k].id = pm.taskId
                /\ u.role = "student" => d.tasks[k].studentId = u.id
    IN SelectSeq(d.payments, Expected)

C18_PaymentsListed == page = "payments" => payments = ListedFor(user, db)

(* C19: registration never produces two users with the same email: in     *)
(* every reachable state the stored emails are pairwise different, and a   *)
(* register with an existing email (the step that raises 'Email already in *)
(* use') adds no user and does not change the logged-in principal.         *)
C19_EmailsUnique ==
    \A i, j \in 1..Len(db.users) : db.users[i].email = db.users[j].email => i = j

C19_RegisterKeepsEmailsUnique ==
    /\ []C19_EmailsUnique
    /\ [][err' = "Email already in use" /\ err # "Email already in use" =>
             /\ db'.users = db.users
             /\ user' = user]_vars

C19_Witness ==
    /\ err = "Email already in use"
    /\ user # NoUser
    /\ Len(db.users) = 3

(* C20: no component holds a copy of store data that diverges from the     *)
(* store: in every reachable state the tasks held by the mounted task list *)
(* and the payments held by the mounted payments page equal what mounting  *)
(* them afresh from the store would give.                                  *)
C20_ViewsMatchStore ==
    /\ page \in TaskPages => tasks = MountTasks(page, user, db)
    /\ page = "payments" => payments = MountPayments(page, user, db)

----------------------------------------------------------------------------
\* TaskBids listing the newest bid first, as TasksList lists the tasks.
TaskBids_NewestFirst(d, task) ==
    LET OfTask(b) == b.taskId = task.id
        s == SelectSeq(d.bids, OfTask)
    IN [n \in 1..Len(s) |-> s[Len(s) + 1 - n]]

\* The bids a TaskCard of `task` lists when it renders from the store d:
\* db.bids.filter(b => b.taskId === task.id), mapped in that order.
TaskBids(d, task) ==
    LET OfTask(b) == b.taskId = task.id
    IN SelectSeq(d.bids, OfTask)

\* The positions in d.bids of the bids made for task id `tid`, and the n-th
\* of them in store order.
BidsOf(d, tid) == {j \in 1..Len(d.bids) : d.bids[j].taskId = tid}

NthBidOf(d, tid, n) ==
    CHOOSE j \in BidsOf(d, tid) : Cardinality({q \in BidsOf(d, tid) : q <= j}) = n

(* C21: the bids a task card lists when it renders are exactly the stored  *)
(* bids whose taskId equals that task's id, in ascending order of          *)
(* submission: the n-th listed bid is the n-th stored bid of the task, and *)
(* a completed submit-bid puts its bid at the end of the list of its task  *)
(* and leaves the list of every other task as it was.                      *)
C21_ListedExactly ==
    \A task \in Range(db.tasks) :
        LET listed == TaskBids(db, task)
        IN /\ Len(listed) = Cardinality(BidsOf(db, task.id))
           /\ \A n \in 1..Len(listed) : listed[n] = db.bids[NthBidOf(db, task.id, n)]

C21_BidsListedInSubmissionOrder ==
    /\ []C21_ListedExactly
    /\ [][alert' = "Bid submitted" =>
             \A task \in Range(db.tasks) :
                 LET bid == db'.bids[Len(db'.bids)]
                 IN TaskBids(db', task) =
                        IF bid.taskId = task.id
                        THEN Append(TaskBids(db, task), bid)
                        ELSE TaskBids(db, task)]_vars

C21_Witness ==
    /\ alert = "Bid submitted"
    /\ \E task \in Range(db.tasks) :
          /\ Len(TaskBids(db, task)) = 2
          /\ TaskBids(db, task)[1] # TaskBids(db, task)[2]

(* C22: in every reachable state a stored payment has paidAt set if and    *)
(* only if its paid flag is true, and a payment is created with the flag   *)
(* false and no paidAt.                                                    *)
C22_PaidAtIffPaidNow ==
    \A j \in 1..Len(db.payments) :
        (db.payments[j].paidAt # NoTime) <=> db.payments[j].studentPaid

C22_PaidAtIffPaid ==
    /\ []C22_PaidAtIffPaidNow
    /\ [][\A j \in (Len(db.payments) + 1)..Len(db'.payments) :
             /\ ~db'.payments[j].studentPaid
             /\ db'.payments[j].paidAt = NoTime]_vars

C22_Witness ==
    /\ alert = "Marked as paid (prototype)."
    /\ \E j \in 1..Len(db.payments) :
          db.payments[j].studentPaid /\ db.payments[j].paidAt # NoTime
    /\ \E j \in 1..Len(db.payments) :
          ~db.payments[j].studentPaid /\ db.payments[j].paidAt = NoTime

(* C23: referential integrity holds in every reachable state: every stored *)
(* bid's taskId and every stored payment's taskId is the id of a stored    *)
(* task; and no step removes a user, task, bid or payment from the store:  *)
(* each collection keeps its records, in place and under their ids.        *)
C23_TaskIdsResolve ==
    /\ \A i \in 1..Len(db.bids) : FindById(db.tasks, db.bids[i].taskId) # 0
    /\ \A j \in 1..Len(db.payments) : FindById(db.tasks, db.payments[j].taskId) # 0

Kept(s, s2) == Len(s2) >= Len(s) /\ \A i \in 1..Len(s) : s2[i].id = s[i].id

C23_ReferentialIntegrity ==
    /\ []C23_TaskIdsResolve
    /\ [][/\ Kept(db.users, db'.users)
          /\ Kept(db.tasks, db'.tasks)
          /\ Kept(db.bids, db'.bids)
          /\ Kept(db.payments, db'.payments)]_vars

C23_Witness ==
    /\ alert = "Bid accepted. Payment pending (prototype)."
    /\ Len(db.users) = 3
    /\ Len(db.tasks) = 2
    /\ Len(db.bids) = 2
    /\ db.payments # <<>>

====
